---- MODULE Spec2Model ----
(***************************************************************************)
(* Model of internlist_alert.py: one run of main() is a sequence of steps  *)
(* (load_seen, the two fetches, the filter against the seen-set, the       *)
(* Telegram send, save_seen, git_commit_if_changed).  Between runs the     *)
(* two listing sources change and the working tree may be replaced by a    *)
(* fresh checkout of the remote repository.                                *)
(***************************************************************************)
EXTENDS Integers, Sequences, FiniteSets, TLC

\* ------------------------------------------------------------------ bounds
\* Intern-List postings are numbered 1..NInternlist (the number stands for the link).
NInternlist == 7
\* Distinct Simplify rows with an application link (the number stands for
\* company|role|location|link).
NSimplify == 1
\* Longest Simplify table.
MaxRows == 2
\* The Intern-List page lists at most this many postings, or all of them.
SmallPage == 1
\* Number of runs of main() in a behaviour.
MaxRuns == 2
\* Longest README table parsed cell by cell.
MaxTableRows == 2

\* ------------------------------------------------------- program constants
\* new_internlist[:6] / new_simplify[:6]
DisplayCap == 6
\* "simplify:..." ids sort after every "internlist:..." id.
SimplifyBase == 100

InternlistLinks == 1..NInternlist
SimplifyKeys == 1..NSimplify
\* A table row is the key of its posting; NoLinkRow stands for a row whose
\* Application cell holds no URL.
NoLinkRow == 0

\* job_id = f"internlist:{link}"
InternlistJobId(link) == link
\* job_id = f"simplify:{company}|{role}|{location}|{link}"
SimplifyJobId(key) == SimplifyBase + key

\* ----------------------------------------------------------------- helpers
Range(s) == {s[i] : i \in 1..Len(s)}

Min(S) == CHOOSE x \in S : \A y \in S : x <= y

\* s[:n]
Take(s, n) == IF Len(s) <= n THEN s ELSE SubSeq(s, 1, n)

\* sorted(seen)
RECURSIVE Sorted(_)
Sorted(S) == IF S = {} THEN <<>> ELSE <<Min(S)>> \o Sorted(S \ {Min(S)})

\* [x for x in jobs if x not in seen]
RECURSIVE NotIn(_, _)
NotIn(jobs, seenSet) ==
    IF jobs = <<>> THEN <<>>
    ELSE IF Head(jobs) \in seenSet THEN NotIn(Tail(jobs), seenSet)
         ELSE <<Head(jobs)>> \o NotIn(Tail(jobs), seenSet)

RECURSIVE SeqsUpTo(_, _)
SeqsUpTo(S, n) ==
    IF n = 0 THEN {<<>>}
    ELSE SeqsUpTo(S, n - 1) \cup {Append(s, x) : s \in {t \in SeqsUpTo(S, n - 1) : Len(t) = n - 1}, x \in S}

\* ------------------------------------------------------------- file values
\* No seen.json; a seen.json json.load cannot parse (an empty or truncated
\* file among them); one holding a JSON list of hashable elements.
Missing == [kind |-> "missing", data |-> <<>>]
Corrupt == [kind |-> "corrupt", data |-> <<>>]
ListFile(s) == [kind |-> "list", data |-> s]
\* A seen.json holding valid JSON that is not a list (an object, a number).
NotAList == [kind |-> "value", data |-> <<>>]
\* A seen.json holding a list with an element set() cannot hash (a nested
\* list, an object).
UnhashableList == [kind |-> "unhashable", data |-> <<>>]
\* A list element that is not a string (a JSON number): hashable, and not
\* comparable with a string.
NotAString == 0

\* The file holds a list of id strings.
IsIdList(f) == f.kind = "list" /\ NotAString \notin Range(f.data)

\* The ids a state file holds (none when it is missing or unreadable).
Content(f) == IF f.kind = "list" THEN Range(f.data) ELSE {}

\* load_seen testing for the wrong JSON type: nothing is ever loaded.
load_seenWrongType(f) == {}

\* load_seen
load_seen(f) == IF f.kind = "list" THEN Range(f.data) ELSE {}

\* save_seen writing all but the last id of the sorted list.
save_seenShort(seenSet) ==
    ListFile(IF seenSet = {} THEN <<>> ELSE SubSeq(Sorted(seenSet), 1, Cardinality(seenSet) - 1))

\* save_seen dumping the set in descending order.
save_seenDescending(seenSet) ==
    LET up == Sorted(seenSet)
    IN  ListFile([i \in 1..Len(up) |-> up[Len(up) + 1 - i]])

\* save_seen: the file after a complete write
save_seen(seenSet) == ListFile(Sorted(seenSet))

VARIABLES
    page,                 \* the Intern-List listing: the links it shows, top to bottom
    readme,               \* the Simplify README table: its rows, top to bottom
    file,                 \* seen.json in the working tree
    head,                 \* seen.json in the local HEAD commit (Missing: untracked)
    remote,               \* seen.json in the pushed remote branch
    pc,                   \* position in main()
    result,               \* how the last run ended ("none": no run has just ended)
    seen,                 \* main: seen
    internlist_jobs,      \* main: internlist_jobs (job ids)
    simplify_jobs,        \* main: simplify_jobs (job ids)
    simplify_parsed_rows, \* main: simplify_parsed_rows
    new_internlist,       \* main: new_internlist
    new_simplify,         \* main: new_simplify
    outbox,               \* the messages this run has sent through Telegram
    il_resp,              \* what the Intern-List GET did in this run
    sf_resp,              \* the Simplify document this run got, and from which URL
    writes,               \* number of writes of seen.json in this run
    pushes,               \* number of pushes in this run
    file0, head0, remote0, \* seen.json, HEAD and remote as the run found them
    prev,                 \* the run that ended just before this one started, if it
                          \* completed and nothing changed in between: which of the
                          \* two sources it could read
    pending,              \* the ids of the new sets of the runs whose send raised,
                          \* while the state file is still as those runs left it
    runs,                 \* number of runs started so far
    allFresh,             \* every run so far started from the pushed seen.json
    \* The next three are kept while allFresh holds, and emptied for good by
    \* the first run that starts from another state file.
    alerted,              \* ids in the new set of an earlier run whose send succeeded
    durable,              \* those of them whose run went on to push its seen.json
    cut,                  \* ids beyond the display cap in an earlier run that pushed
    environ,              \* os.environ of every run: the credentials the workflow
                          \* is configured with (both, or one of them absent)
    md,                   \* a README document, cell by cell (table parsing)
    table_out             \* what the table parser made of md

vars == <<page, readme, file, head, remote, pc, result, seen, internlist_jobs,
          simplify_jobs, simplify_parsed_rows, new_internlist, new_simplify,
          outbox, il_resp, sf_resp, writes, pushes, file0, head0, remote0,
          prev, pending, runs, allFresh, alerted, durable, cut, environ, md, table_out>>

\* What the listing page can look like: postings 1..n, in order, for a
\* small n (fewer than the display cap) or for all the postings (more than
\* the display cap); a later page may show more of them, or fewer.
Pages == {[i \in 1..n |-> i] : n \in (0..SmallPage) \cup {NInternlist}}
\* What the README table can look like: rows with an application link, a
\* posting possibly on several rows.
Readmes == SeqsUpTo(SimplifyKeys, MaxRows)

\* The two environment variables send_telegram reads.
Credentials == {"TELEGRAM_BOT_TOKEN", "TELEGRAM_CHAT_ID"}

\* fetch_simplify_swe_jobs has not been called.
NoDocument == [document |-> "unread", url |-> 0]

FreshLocals ==
    /\ seen = {}
    /\ internlist_jobs = <<>>
    /\ simplify_jobs = <<>>
    /\ simplify_parsed_rows = 0
    /\ new_internlist = <<>>
    /\ new_simplify = <<>>
    /\ outbox = <<>>
    /\ il_resp = "none"
    /\ sf_resp = NoDocument
    /\ writes = 0
    /\ pushes = 0

\* No run ended just before.
NoRun == [result |-> "none", internlist |-> FALSE, simplify |-> FALSE]

\* The state before the first run, the repository holding one of `files`.
InitWith(files) ==
    /\ page = <<>>
    /\ readme = <<>>
    /\ file \in files
    /\ head = file
    /\ remote = file
    /\ pc = "idle"
    /\ result = "none"
    /\ FreshLocals
    /\ file0 = file
    /\ head0 = head
    /\ remote0 = remote
    /\ prev = NoRun
    /\ pending = {}
    /\ alerted = {}
    /\ durable = {}
    /\ cut = {}
    /\ allFresh = TRUE
    /\ runs = 0
    /\ environ \in {Credentials} \cup {Credentials \ {c} : c \in Credentials}

\* No document is parsed cell by cell.
NoMd == [header |-> <<>>, postings |-> <<>>, rows |-> <<>>]
NotParsed == [done |-> FALSE, located |-> FALSE, jobs |-> <<>>, parsed_rows |-> 0]

\* The repository starts without seen.json or with an empty list in it.
Init ==
    /\ InitWith({Missing, ListFile(<<>>)})
    /\ md = NoMd
    /\ table_out = NotParsed

\* The repository starts with a seen.json that someone edited by hand or
\* that an earlier failure damaged.
EditedFiles == {Corrupt, NotAList, UnhashableList, ListFile(<<NotAString>>)}
InitEdited ==
    /\ InitWith(EditedFiles)
    /\ md = NoMd
    /\ table_out = NotParsed

\* ------------------------------------------------------------ the adapters
\* What one GET of the Intern-List page can do.  requests.get raises on a
\* network error or timeout; a non-success status is not checked, so the
\* error page is parsed and holds no posting anchor.
InternlistResponses == {"ok", "non200", "exception"}

\* What one GET of a Simplify URL can do: a README with the table, a 200
\* whose text has no table header, a non-200 status, a 200 with an empty
\* body, an exception.
SimplifyResponses == {"ok", "no_header", "non200", "empty", "exception"}

\* seen_links: the first anchor of each link is kept
RECURSIVE DedupLinks(_, _)
DedupLinks(links, seenLinks) ==
    IF links = <<>> THEN <<>>
    ELSE IF Head(links) \in seenLinks THEN DedupLinks(Tail(links), seenLinks)
         ELSE <<Head(links)>> \o DedupLinks(Tail(links), seenLinks \cup {Head(links)})

\* fetch_internlist_jobs, given the response and the listing (exception: see
\* FetchInternlist)
fetch_internlist_jobs(resp, listing) ==
    IF resp = "ok"
    THEN LET links == DedupLinks(listing, {})
         IN  [i \in 1..Len(links) |-> InternlistJobId(links[i])]
    ELSE <<>>

\* The loop over SIMPLIFY_RAW_URLS: the first response with status 200 and a
\* non-empty text, "none" when neither URL gives one.
SimplifyDocument(r1, r2) ==
    IF r1 \in {"ok", "no_header"} THEN r1
    ELSE IF r2 \in {"ok", "no_header"} THEN r2
    ELSE "none"

\* Which of SIMPLIFY_RAW_URLS, 1 or 2, gave that document (0: neither).
SimplifyUrl(r1, r2) ==
    IF r1 \in {"ok", "no_header"} THEN 1
    ELSE IF r2 \in {"ok", "no_header"} THEN 2
    ELSE 0

\* The rows loop: a row with an application link gives a job.
RECURSIVE RowJobs(_)
RowJobs(rows) ==
    IF rows = <<>> THEN <<>>
    ELSE IF Head(rows) = NoLinkRow THEN RowJobs(Tail(rows))
         ELSE <<SimplifyJobId(Head(rows))>> \o RowJobs(Tail(rows))

\* fetch_simplify_swe_jobs parsing whatever came back, the status unchecked.
fetch_simplify_unchecked(r1, r2, table) == <<RowJobs(table), Len(table)>>

\* fetch_simplify_swe_jobs: <<jobs, parsed_rows>>
fetch_simplify_swe_jobs(r1, r2, table) ==
    IF SimplifyDocument(r1, r2) = "ok"
    THEN <<RowJobs(table), Len(table)>>
    ELSE <<<<>>, 0>>

\* The message main() builds (lines, joined): the Intern-List section is
\* there only when it has new postings, the Simplify section always.
Message(newIL, parsed, newSF) ==
    [ internlist_section |-> newIL # <<>>,
      internlist |-> Take(newIL, DisplayCap),
      parsed |-> parsed,
      new_count |-> Len(newSF),
      simplify |-> Take(newSF, DisplayCap),
      simplify_none |-> newSF = <<>> ]

\* The marking loop run over the displayed slices only.
MarkDisplayed(seenSet, newIL, newSF) ==
    seenSet \cup Range(Take(newIL, DisplayCap) \o Take(newSF, DisplayCap))

\* The marking loop replacing the seen-set by the new ids.
MarkReplacing(seenSet, newIL, newSF) == Range(newIL \o newSF)

\* for jid, _, _ in (new_internlist + new_simplify): seen.add(jid)
MarkSeen(seenSet, newIL, newSF) == seenSet \cup Range(newIL \o newSF)

\* "seen.json" in `git diff --name-only`: a tracked file whose working-tree
\* content differs from the committed one (an untracked file is not listed).
InDiff(f, h) == h.kind # "missing" /\ f # h

\* --------------------------------------------------------------- the steps
ResetLocals ==
    /\ internlist_jobs' = <<>>
    /\ simplify_jobs' = <<>>
    /\ simplify_parsed_rows' = 0
    /\ new_internlist' = <<>>
    /\ new_simplify' = <<>>
    /\ outbox' = <<>>
    /\ il_resp' = "none"
    /\ sf_resp' = NoDocument
    /\ writes' = 0
    /\ pushes' = 0

\* The process has exited: between runs only the sources and the
\* repository remain.
BetweenRuns ==
    /\ pc = "idle"
    /\ pc' = "idle"
    /\ result' = "none"
    /\ seen' = {}
    /\ ResetLocals
    /\ file0' = file'
    /\ head0' = head'
    /\ remote0' = remote'
    /\ prev' = NoRun
    /\ UNCHANGED <<alerted, durable, cut, allFresh, runs, environ, md, table_out>>

\* The Intern-List site shows another window of postings.
PublishInternlist ==
    /\ \E p \in Pages : p # page /\ page' = p
    /\ UNCHANGED <<readme, file, head, remote, pending>>
    /\ BetweenRuns

\* The Simplify README table changes.
PublishSimplify ==
    /\ \E t \in Readmes : t # readme /\ readme' = t
    /\ UNCHANGED <<page, file, head, remote, pending>>
    /\ BetweenRuns

\* The next run starts on a fresh checkout of the remote branch (the
\* scheduled workflow): the working tree and HEAD are the remote's.
Checkout ==
    /\ <<file, head>> # <<remote, remote>>
    /\ file' = remote
    /\ head' = remote
    /\ pending' = IF file' = file THEN pending ELSE {}
    /\ UNCHANGED <<page, readme, remote>>
    /\ BetweenRuns

\* main: seen = load_seen()
LoadSeen ==
    /\ pc = "idle"
    /\ runs < MaxRuns
    /\ runs' = runs + 1
    /\ ResetLocals
    /\ seen' = load_seen(file)
    /\ pc' = "fetch_internlist"
    /\ result' = "none"
    /\ file0' = file
    /\ head0' = head
    /\ remote0' = remote
    /\ prev' = IF result = "complete"
               THEN [result |-> result, internlist |-> il_resp = "ok",
                     simplify |-> sf_resp.document = "ok"]
               ELSE NoRun
    /\ allFresh' = (allFresh /\ file = remote)
    /\ alerted' = IF allFresh' THEN alerted ELSE {}
    /\ durable' = IF allFresh' THEN durable ELSE {}
    /\ cut' = IF allFresh' THEN cut ELSE {}
    /\ UNCHANGED <<page, readme, file, head, remote, pending, environ, md, table_out>>

\* The ids of this run's new set, and those of them the message leaves out.
NewIds == Range(new_internlist \o new_simplify)
BeyondCap ==
    (Range(new_internlist) \ Range(Take(new_internlist, DisplayCap)))
        \cup (Range(new_simplify) \ Range(Take(new_simplify, DisplayCap)))

\* The run ends: main() returns or an exception leaves it.
EndRun(how) ==
    /\ pc' = "idle"
    /\ result' = how

\* main: internlist_jobs = fetch_internlist_jobs()
FetchInternlist ==
    /\ pc = "fetch_internlist"
    /\ \E r \in InternlistResponses :
        /\ il_resp' = r
        /\ IF r = "exception"
           THEN /\ EndRun("raised_fetch")
                /\ UNCHANGED internlist_jobs
           ELSE /\ internlist_jobs' = fetch_internlist_jobs(r, page)
                /\ pc' = "fetch_simplify"
                /\ UNCHANGED result
    /\ UNCHANGED <<page, readme, file, head, remote, seen, simplify_jobs,
                   simplify_parsed_rows, new_internlist, new_simplify, outbox,
                   sf_resp, writes, pushes, file0, head0, remote0,
                   prev, pending, alerted, durable, cut, allFresh, runs, environ, md, table_out>>

\* main: simplify_jobs, simplify_parsed_rows = fetch_simplify_swe_jobs()
\* (the fallback URL is read only when the primary gave no document)
FetchSimplify ==
    /\ pc = "fetch_simplify"
    /\ \E r1 \in SimplifyResponses :
       \E r2 \in IF r1 \in {"ok", "no_header"} THEN {"none"} ELSE SimplifyResponses :
        /\ sf_resp' = [document |-> SimplifyDocument(r1, r2), url |-> SimplifyUrl(r1, r2)]
        /\ simplify_jobs' = fetch_simplify_swe_jobs(r1, r2, readme)[1]
        /\ simplify_parsed_rows' = fetch_simplify_swe_jobs(r1, r2, readme)[2]
    /\ pc' = "filter"
    /\ UNCHANGED <<page, readme, file, head, remote, result, seen, internlist_jobs,
                   new_internlist, new_simplify, outbox, il_resp, writes, pushes,
                   file0, head0, remote0, prev, pending, alerted, durable, cut, allFresh, runs, environ, md, table_out>>

\* The filter step without the early return.
FilterWithoutReturn ==
    /\ pc = "filter"
    /\ new_internlist' = NotIn(internlist_jobs, seen)
    /\ new_simplify' = NotIn(simplify_jobs, seen)
    /\ pc' = "send"
    /\ UNCHANGED <<page, readme, file, head, remote, result, seen, internlist_jobs,
                   simplify_jobs, simplify_parsed_rows, outbox, il_resp, sf_resp,
                   writes, pushes, file0, head0, remote0,
                   prev, pending, alerted, durable, cut, allFresh, runs, environ, md, table_out>>

\* main: new_internlist, new_simplify; "if not new_internlist and not
\* new_simplify: return"
Filter ==
    /\ pc = "filter"
    /\ new_internlist' = NotIn(internlist_jobs, seen)
    /\ new_simplify' = NotIn(simplify_jobs, seen)
    /\ IF new_internlist' = <<>> /\ new_simplify' = <<>>
       THEN EndRun("nothing_new")
       ELSE pc' = "send" /\ UNCHANGED result
    /\ UNCHANGED <<page, readme, file, head, remote, seen, internlist_jobs,
                   simplify_jobs, simplify_parsed_rows, outbox, il_resp, sf_resp,
                   writes, pushes, file0, head0, remote0, prev, pending, alerted, durable, cut, allFresh, runs, environ, md, table_out>>

\* send_telegram: os.environ[...] raises KeyError when a credential is
\* absent; with both present the POST succeeds or raises.
Deliveries == IF Credentials \subseteq environ THEN BOOLEAN ELSE {FALSE}

\* The send step with the state file written before the send is known to
\* have succeeded.
SendTelegramAfterSave ==
    /\ pc = "send"
    /\ file' = save_seen(MarkSeen(seen, new_internlist, new_simplify))
    /\ \E delivered \in Deliveries :
        IF delivered
        THEN /\ outbox' = Append(outbox, Message(new_internlist, simplify_parsed_rows, new_simplify))
             /\ pc' = "save"
             /\ UNCHANGED <<result, pending>>
        ELSE /\ EndRun("raised_send")
             /\ pending' = pending \cup NewIds
             /\ UNCHANGED outbox
    /\ UNCHANGED <<page, readme, head, remote, seen, internlist_jobs,
                   simplify_jobs, simplify_parsed_rows, new_internlist, new_simplify,
                   il_resp, sf_resp, writes, pushes, file0, head0, remote0,
                   prev, alerted, durable, cut, allFresh, runs, environ, md, table_out>>

\* The send step with its exception caught and dropped.
SendTelegramSwallowed ==
    /\ pc = "send"
    /\ \E delivered \in Deliveries :
        outbox' = IF delivered
                  THEN Append(outbox, Message(new_internlist, simplify_parsed_rows, new_simplify))
                  ELSE outbox
    /\ pc' = "save"
    /\ UNCHANGED <<page, readme, file, head, remote, result, seen, internlist_jobs,
                   simplify_jobs, simplify_parsed_rows, new_internlist, new_simplify,
                   il_resp, sf_resp, writes, pushes, file0, head0, remote0,
                   prev, pending, alerted, durable, cut, allFresh, runs, environ, md, table_out>>

\* main: send_telegram("\n".join(lines)); a missing credential, a failed
\* POST or a non-success status raises.
SendTelegram ==
    /\ pc = "send"
    /\ \E delivered \in Deliveries :
        IF delivered
        THEN /\ outbox' = Append(outbox, Message(new_internlist, simplify_parsed_rows, new_simplify))
             /\ pc' = "save"
             /\ UNCHANGED <<result, pending>>
        ELSE /\ EndRun("raised_send")
             /\ pending' = pending \cup NewIds
             /\ UNCHANGED outbox
    /\ UNCHANGED <<page, readme, file, head, remote, seen, internlist_jobs,
                   simplify_jobs, simplify_parsed_rows, new_internlist, new_simplify,
                   il_resp, sf_resp, writes, pushes, file0, head0, remote0,
                   prev, alerted, durable, cut, allFresh, runs, environ, md, table_out>>

\* What save_seen can do: write the whole list; fail in open() before the
\* file is touched; stop after open(.., "w") truncated the file and before
\* json.dump finished.
SaveOutcomes == {"written", "open_fails", "interrupted"}

\* sorted(seen) raises TypeError on a set that mixes strings with a
\* non-string, after open(.., "w") has truncated the file: the write cannot
\* complete.
SaveOutcomesOf(seenSet) ==
    IF NotAString \in seenSet /\ seenSet # {NotAString}
    THEN SaveOutcomes \ {"written"}
    ELSE SaveOutcomes

\* main: the "mark as seen" loop and save_seen(seen)
MarkAndSave ==
    /\ pc = "save"
    /\ seen' = MarkSeen(seen, new_internlist, new_simplify)
    /\ alerted' = IF allFresh THEN alerted \cup NewIds ELSE {}
    /\ pending' = {}
    /\ \E o \in SaveOutcomesOf(seen') :
        CASE o = "written" ->
                /\ file' = save_seen(seen')
                /\ writes' = writes + 1
                /\ pc' = "git"
                /\ UNCHANGED result
          [] o = "open_fails" ->
                /\ EndRun("raised_save")
                /\ UNCHANGED <<file, writes>>
          [] o = "interrupted" ->
                /\ file' = Corrupt
                /\ writes' = writes + 1
                /\ EndRun("raised_save")
    /\ UNCHANGED <<page, readme, head, remote, internlist_jobs, simplify_jobs,
                   simplify_parsed_rows, new_internlist, new_simplify, outbox,
                   il_resp, sf_resp, pushes, file0, head0, remote0,
                   prev, durable, cut, allFresh, runs, environ, md, table_out>>

\* What the git commands of git_commit_if_changed can do (check=True raises
\* on a non-zero exit).
GitOutcomes == {"ok", "diff_fails", "commit_fails", "push_fails"}

\* main: git_commit_if_changed()
GitCommitIfChanged ==
    /\ pc = "git"
    /\ \E g \in GitOutcomes :
        CASE g = "diff_fails" ->
                /\ EndRun("raised_git")
                /\ UNCHANGED <<head, remote, pushes, durable, cut>>
          [] g = "ok" /\ ~InDiff(file, head) ->
                /\ EndRun("complete")
                /\ UNCHANGED <<head, remote, pushes, durable, cut>>
          [] g = "ok" /\ InDiff(file, head) ->
                /\ head' = file
                /\ remote' = file
                /\ pushes' = pushes + 1
                /\ durable' = IF allFresh THEN durable \cup NewIds ELSE {}
                /\ cut' = IF allFresh THEN cut \cup BeyondCap ELSE {}
                /\ EndRun("complete")
          [] g = "commit_fails" /\ InDiff(file, head) ->
                /\ EndRun("raised_git")
                /\ UNCHANGED <<head, remote, pushes, durable, cut>>
          [] g = "push_fails" /\ InDiff(file, head) ->
                /\ head' = file
                /\ EndRun("raised_git")
                /\ UNCHANGED <<remote, pushes, durable, cut>>
          [] OTHER -> FALSE
    /\ UNCHANGED <<page, readme, file, seen, internlist_jobs, simplify_jobs,
                   simplify_parsed_rows, new_internlist, new_simplify, outbox,
                   il_resp, sf_resp, writes, file0, head0, remote0,
                   prev, pending, alerted, allFresh, runs, environ, md, table_out>>

Next ==
    \/ PublishInternlist
    \/ PublishSimplify
    \/ Checkout
    \/ LoadSeen
    \/ FetchInternlist
    \/ FetchSimplify
    \/ Filter
    \/ SendTelegram
    \/ MarkAndSave
    \/ GitCommitIfChanged

Spec == Init /\ [][Next]_vars

SpecEdited == InitEdited /\ [][Next]_vars

\* ------------------------------------------- the README table, cell by cell
\* if len(cells) < 5: the five cells a row is read from
NColumns == 5

\* The header labels, as re.sub(r"\s+", " ", ln.strip().lower()) leaves them.
Labels == {"company", "role", "location", "application", "age"}
StandardHeader == <<"company", "role", "location", "application", "age">>
\* Every order of the five labels.
Headers == {h \in [1..NColumns -> Labels] : \A i, j \in 1..NColumns : h[i] = h[j] => i = j}

\* A cell: its text as _clean_md_text leaves it, and the URL it carries, if
\* any, with the form the URL is written in.
NoUrl == "none"
TextCell(t) == [text |-> t, kind |-> "none", url |-> NoUrl]
LinkCell(t, k, u) == [text |-> IF k = "raw" THEN u ELSE t, kind |-> k, url |-> u]

CompanyText == "Acme"
RoleText == "SWE Intern"
LocationText == "Remote"
AgeText == "3d"
CompanyUrl == "https://acme.example"
ApplyUrl == "https://apply.example"

\* The postings a table lists: the company name may link to the company's
\* page, the Application cell holds an apply link in one of three forms or
\* none (a closed posting).
PostingKinds == [company_link : {"none", "markdown", "href"},
                 apply : {"none", "href", "markdown", "raw"}]

\* The cell the README's author writes for a posting under a header label.
CellOf(p, label) ==
    CASE label = "company" ->
            IF p.company_link = "none" THEN TextCell(CompanyText)
            ELSE LinkCell(CompanyText, p.company_link, CompanyUrl)
      [] label = "role" -> TextCell(RoleText)
      [] label = "location" -> TextCell(LocationText)
      [] label = "application" ->
            IF p.apply = "none" THEN TextCell("closed")
            ELSE LinkCell("Apply", p.apply, ApplyUrl)
      [] label = "age" -> TextCell(AgeText)

\* A README whose table has header h and lists the postings ps, each row
\* laid out under the header's columns.
Document(h, ps) ==
    [ header |-> h,
      postings |-> ps,
      rows |-> [k \in 1..Len(ps) |-> [i \in 1..NColumns |-> CellOf(ps[k], h[i])]] ]

\* The tables a README can hold: up to MaxTableRows postings.
Tables == SeqsUpTo(PostingKinds, MaxTableRows)

\* The header test on the line "| h[1] | ... | h[n] |": startswith
\* "| company |"; " | role | ", " | location | ", " | application | " occur
\* (a label in the first or the last column is not surrounded that way);
\* " | age |" occurs.
HeaderMatches(h) ==
    /\ Len(h) >= 1
    /\ h[1] = "company"
    /\ \A l \in {"role", "location", "application"} : \E i \in 2..(Len(h) - 1) : h[i] = l
    /\ \E i \in 2..Len(h) : h[i] = "age"

\* The first URL written in the given form in the cells, left to right.
RECURSIVE FirstUrl(_, _)
FirstUrl(cells, kind) ==
    IF cells = <<>> THEN NoUrl
    ELSE IF Head(cells).kind = kind THEN Head(cells).url
         ELSE FirstUrl(Tail(cells), kind)

\* _extract_any_url on the text of the cells: an href first, then a
\* markdown link, then a raw URL
extract_any_url(cells) ==
    IF FirstUrl(cells, "href") # NoUrl THEN FirstUrl(cells, "href")
    ELSE IF FirstUrl(cells, "markdown") # NoUrl THEN FirstUrl(cells, "markdown")
    ELSE FirstUrl(cells, "raw")

\* _clean_md_text: the link text without its target, tags removed
clean_md_text(c) == c.text

\* link = _extract_any_url(app_cell) or _extract_any_url(ln)
RowLink(row) ==
    IF extract_any_url(<<row[4]>>) # NoUrl THEN extract_any_url(<<row[4]>>)
    ELSE extract_any_url(row)

\* (job_id, title, link) of a row: company, role, location, age are cells
\* 0, 1, 2, 4 of the row
RowJob(row) ==
    LET company == clean_md_text(row[1])
        role == clean_md_text(row[2])
        location == clean_md_text(row[3])
        age == IF clean_md_text(row[5]) = "" THEN "?" ELSE clean_md_text(row[5])
    IN  [ id |-> <<company, role, location, RowLink(row)>>,
          title |-> <<age, company, role, location>>,
          link |-> RowLink(row) ]

\* The loop over the lines after the header and the separator.
RECURSIVE TableJobs(_)
TableJobs(rows) ==
    IF rows = <<>> THEN <<>>
    ELSE IF RowLink(Head(rows)) = NoUrl THEN TableJobs(Tail(rows))
         ELSE <<RowJob(Head(rows))>> \o TableJobs(Tail(rows))

\* fetch_simplify_swe_jobs from "lines = md.splitlines()" on
parse_table(doc) ==
    IF HeaderMatches(doc.header)
    THEN [done |-> TRUE, located |-> TRUE, jobs |-> TableJobs(doc.rows),
          parsed_rows |-> Len(doc.rows)]
    ELSE [done |-> TRUE, located |-> FALSE, jobs |-> <<>>, parsed_rows |-> 0]

\* The adapter parses the document it fetched.
ParseTable ==
    /\ ~table_out.done
    /\ table_out' = parse_table(md)
    /\ UNCHANGED <<page, readme, file, head, remote, pc, result, seen, internlist_jobs,
                   simplify_jobs, simplify_parsed_rows, new_internlist, new_simplify,
                   outbox, il_resp, sf_resp, writes, pushes, file0, head0, remote0,
                   prev, pending, runs, allFresh, alerted, durable, cut, environ, md>>

\* Any README the bounds allow, fetched and not yet parsed; main() at rest.
InitTable ==
    /\ InitWith({Missing})
    /\ environ = Credentials
    /\ \E h \in Headers : \E ps \in Tables : md = Document(h, ps)
    /\ table_out = NotParsed

NextTable == ParseTable

SpecTable == InitTable /\ [][NextTable]_vars

\* ------------------------------------------------------------ the claims
\* A run has just ended (the process has not exited the model's view yet).
RunEnded == pc = "idle" /\ result # "none"

\* The filter step of the current run is behind it.
AfterFilter ==
    \/ pc \in {"send", "save", "git"}
    \/ RunEnded /\ result # "raised_fetch"

\* send_telegram has returned in the current run.
AfterSend ==
    \/ pc \in {"save", "git"}
    \/ RunEnded /\ result \in {"raised_save", "raised_git", "complete"}

\* save_seen has returned in the current run.
AfterSave ==
    \/ pc = "git"
    \/ RunEnded /\ result \in {"raised_git", "complete"}

\* The ids both fetches returned in the current run.
Fetched == Range(internlist_jobs \o simplify_jobs)

\* Working tree, HEAD and remote are as the run found them.
RepoUnchanged == file = file0 /\ head = head0 /\ remote = remote0

\* C1: the state file is written, and its commit pushed, at most once per
\* run and only after send_telegram returned in that run; a run whose send
\* raised leaves seen.json, HEAD and the remote exactly as it found them.
NotifyBeforePersist ==
    /\ writes <= 1
    /\ pushes <= 1
    /\ (writes > 0 \/ ~RepoUnchanged) => Len(outbox) = 1
    /\ (RunEnded /\ result = "raised_send") => (outbox = <<>> /\ writes = 0 /\ RepoUnchanged)

\* C1 witness: the send raised in a run that had new postings and a
\* non-empty seen-state.
SendRaisedReached ==
    /\ RunEnded
    /\ result = "raised_send"
    /\ NewIds # {}
    /\ Content(file0) # {}

\* C2: a run that starts from an empty persisted seen-state and fetches at
\* least one posting sends nothing, and ends with exactly the fetched ids
\* in the state file.
BootstrapSilence ==
    (file0.kind # "corrupt" /\ Content(file0) = {} /\ AfterFilter /\ Fetched # {})
        => /\ outbox = <<>>
           /\ (RunEnded /\ result = "complete") => Content(file) = Fetched

\* C3: a run started right after a complete run, with nothing changed in
\* between and both sources read as that run read them, finds nothing new:
\* it ends at the early return with no send, no write, no push.
Idempotence ==
    ( /\ prev.result = "complete"
      /\ AfterFilter
      /\ (il_resp = "ok") <=> prev.internlist
      /\ (sf_resp.document = "ok") <=> prev.simplify )
        => /\ RunEnded
           /\ result = "nothing_new"
           /\ NewIds = {}
           /\ outbox = <<>>
           /\ writes = 0
           /\ pushes = 0
           /\ RepoUnchanged

\* C3 witness: the second of two such runs has ended, and the page it read
\* lists postings.
SecondRunReached ==
    /\ prev.result = "complete"
    /\ prev.internlist
    /\ RunEnded
    /\ il_resp = "ok"
    /\ internlist_jobs # <<>>
    /\ result = "nothing_new"

\* C4 as claimed: with every run started from the pushed seen-state, no id
\* is in the new set of two runs whose send succeeded.
NoDuplicateAlerts ==
    (allFresh /\ pc = "save") => NewIds \cap alerted = {}

\* C4 as amended: with every run started from the pushed seen-state, an id
\* in the new set of a run that sent, saved and pushed is in the new set of
\* no later run.
NoDuplicateOfPushed ==
    (allFresh /\ pc \in {"send", "save", "git"}) => NewIds \cap durable = {}

\* C4 witness: a later run fetches an id an earlier run alerted and pushed,
\* and has other ids to send.
PushedIdFetchedAgain ==
    /\ allFresh
    /\ pc = "send"
    /\ durable \cap Fetched # {}

\* C5: no message shows more than DisplayCap postings of a source; once
\* save_seen has returned the state file holds every id of the new set,
\* and after the push so does the remote; with every run started from the
\* pushed state, an id the cap cut off is in no later new set.
CapIndependence ==
    /\ \A i \in 1..Len(outbox) :
         /\ Len(outbox[i].internlist) <= DisplayCap
         /\ Len(outbox[i].simplify) <= DisplayCap
    /\ AfterSave => NewIds \subseteq Content(file)
    /\ (RunEnded /\ result = "complete" /\ pushes = 1) => NewIds \subseteq Content(remote)
    /\ (allFresh /\ pc \in {"send", "save", "git"}) => NewIds \cap cut = {}

\* C5 witness: a later run reads a page that still lists a posting the cap
\* cut off, and has something new to send.
CutIdFetchedAgain ==
    /\ allFresh
    /\ pc = "send"
    /\ cut \cap Fetched # {}

\* C6: after a run whose send raised, every id of its new set that a later
\* run fetches, the state file still being as the failed run left it, is
\* in that run's new set, so that run does not end at the early return; and
\* it is in the new set of the run whose send then succeeds.
AtLeastOnce ==
    /\ (pc \in {"send", "save"} \/ (RunEnded /\ result = "nothing_new"))
          => (pending \cap Fetched) \subseteq NewIds
    /\ (RunEnded /\ result = "nothing_new") => pending \cap Fetched = {}
    /\ pc = "save" => Len(outbox) = 1

\* C6 witness: the send of a later run has succeeded with an id of the
\* failed run's new set in its new set.
RetryReached ==
    /\ pc = "save"
    /\ pending \cap NewIds # {}

\* C7: when every fetched id is in the loaded seen-set (or nothing was
\* fetched), the run ends at the early return: nothing sent, nothing
\* written, nothing pushed, seen.json, HEAD and remote untouched.
NothingNewNoOp ==
    (AfterFilter /\ Fetched \subseteq load_seen(file0))
        => /\ RunEnded
           /\ result = "nothing_new"
           /\ outbox = <<>>
           /\ writes = 0
           /\ pushes = 0
           /\ RepoUnchanged

\* C7 witness: a run that fetched postings, all of them seen, has ended.
NothingNewReached ==
    /\ RunEnded
    /\ result = "nothing_new"
    /\ Fetched # {}

\* C8: whichever adapter's fetch fails, the run is not aborted: a run in
\* which the Intern-List fetch failed while the README lists an unseen row,
\* or the Simplify fetch failed while the page gave new postings, ends
\* neither with the fetch's exception nor at the early return.
SourceIsolation ==
    /\ ( /\ RunEnded
         /\ il_resp \in {"exception", "non200"}
         /\ \E k \in Range(readme) : SimplifyJobId(k) \notin load_seen(file0) )
          => result # "raised_fetch"
    /\ (RunEnded /\ sf_resp.document = "none" /\ new_internlist # <<>>)
          => result \notin {"raised_fetch", "nothing_new"}

\* C9 as claimed: when neither Simplify URL gave a document and Intern-List
\* has k >= 1 new postings, the message sent shows those k postings and
\* reports 0 parsed rows and 0 new.
TableFailureShowsAll ==
    (sf_resp.document = "none" /\ new_internlist # <<>> /\ AfterSend)
        => /\ Len(outbox) = 1
           /\ outbox[1].internlist = new_internlist
           /\ outbox[1].parsed = 0
           /\ outbox[1].new_count = 0

\* C9 as amended: in that case the run does not end at the early return;
\* the one message it sends shows the first min(k, DisplayCap) of the k
\* postings and reports 0 parsed rows and 0 new; the state file written
\* holds the loaded seen-set and the k ids, and so does the remote after
\* the push.
TableFailureReported ==
    (sf_resp.document = "none" /\ new_internlist # <<>>)
        => /\ simplify_jobs = <<>>
           /\ AfterFilter => ~(RunEnded /\ result = "nothing_new")
           /\ AfterSend =>
                /\ Len(outbox) = 1
                /\ outbox[1].internlist_section
                /\ outbox[1].internlist = Take(new_internlist, DisplayCap)
                /\ outbox[1].parsed = 0
                /\ outbox[1].new_count = 0
                /\ outbox[1].simplify = <<>>
                /\ outbox[1].simplify_none
           /\ AfterSave => Content(file) = load_seen(file0) \cup Range(new_internlist)
           /\ (RunEnded /\ result = "complete" /\ pushes = 1) => remote = file

\* C9 witness: the state file was written in a run that could not read a
\* non-empty Simplify table from either URL.
TableFailureReached ==
    /\ pc = "git"
    /\ sf_resp.document = "none"
    /\ readme # <<>>
    /\ new_internlist # <<>>

\* C10: during and after a run, a readable state file holds every id the
\* state file held when the run started; and the remote, when the run
\* started from a state file that held the remote's ids, loses none.
SeenMonotone ==
    /\ file.kind # "corrupt" => Content(file0) \subseteq Content(file)
    /\ (file0.kind # "corrupt" /\ Content(remote0) \subseteq Content(file0))
           => Content(remote0) \subseteq Content(remote)

\* C10 witness: a run that started from a non-empty state file added ids
\* to it and then failed in git.
GrownThenGitFailed ==
    /\ RunEnded
    /\ result = "raised_git"
    /\ Content(file0) # {}
    /\ Content(file) # Content(file0)

\* A run is under way or has just ended.
InRun == pc # "idle" \/ RunEnded

\* C11: when one of the two credentials is absent from the environment,
\* the run fetches neither source, and ends neither at the early return
\* nor at the send.
CredentialsCheckedFirst ==
    (InRun /\ ~(Credentials \subseteq environ))
        => /\ il_resp = "none"
           /\ sf_resp = NoDocument
           /\ pc \notin {"fetch_simplify", "filter", "send"}
           /\ result \notin {"nothing_new", "raised_send"}

\* C12: once save_seen has returned, the state file is a list that holds
\* exactly the ids loaded at the start of the run and the ids both fetches
\* returned, each once, in ascending order; nothing else of the previous
\* file is left.
CommittedContent ==
    AfterSave =>
        /\ file.kind = "list"
        /\ Len(outbox) = 1
        /\ NewIds # {}
        /\ Content(file) = load_seen(file0) \cup Fetched
        /\ Len(file.data) = Cardinality(load_seen(file0) \cup Fetched)
        /\ \A i \in 1..Len(file.data) : \A j \in 1..Len(file.data) :
               i < j => file.data[i] < file.data[j]

\* C12 witness: the file was rewritten in a run that started from a
\* non-empty state file and fetched the same Simplify posting twice next to
\* an Intern-List posting already seen.
RewrittenWithDuplicates ==
    /\ pc = "git"
    /\ Content(file0) # {}
    /\ Len(simplify_jobs) > Cardinality(Range(simplify_jobs))
    /\ Range(internlist_jobs) \cap Content(file0) # {}

\* C13: a run that starts from a state file that is not a list of id
\* strings works on the empty seen-set until it marks its new ids, treats
\* every fetched id as new, and a completed save_seen leaves exactly the
\* fetched ids in the file, as in a run that started from an empty state.
StateCorruptionFallback ==
    (InRun /\ ~IsIdList(file0) /\ file0 # Missing)
        => /\ pc \in {"fetch_internlist", "fetch_simplify", "filter", "send"} => seen = {}
           /\ AfterFilter => NewIds = Fetched
           /\ AfterSave => file = save_seen(Fetched)

\* C14: when a run ends inside save_seen, what load_seen returns for the
\* file it leaves (what the next run on this working tree loads) is the
\* seen-set the run loaded or the seen-set it was writing.
AtomicStateWrite ==
    (RunEnded /\ result = "raised_save")
        => load_seen(file) \in {load_seen(file0), seen}

\* C15: a run that wrote a seen.json differing from the one in the commit
\* it started on (none there included), and whose git commands all
\* succeeded, has committed and pushed it: HEAD and the remote hold the
\* written file, and a run on a fresh checkout loads the seen-set written.
DurableCommit ==
    (RunEnded /\ result = "complete" /\ writes = 1 /\ file # head0)
        => /\ pushes = 1
           /\ head = file
           /\ remote = file
           /\ load_seen(remote) = seen

\* No entry of the list occurs in it twice.
NoRepeats(jobs) == Len(jobs) = Cardinality(Range(jobs))

\* C16: neither adapter returns a posting twice in one fetch, so neither
\* new list holds one twice, and the count the message reports is the number
\* of distinct new Simplify postings.
FetchDeduplicated ==
    /\ NoRepeats(internlist_jobs)
    /\ NoRepeats(simplify_jobs)
    /\ NoRepeats(new_internlist)
    /\ NoRepeats(new_simplify)
    /\ \A i \in 1..Len(outbox) : outbox[i].new_count = Cardinality(Range(new_simplify))

\* C18: when the table adapter has returned without a table (no document,
\* or a document without the header row), it has read the fallback URL:
\* the document it stopped at is not the primary's.
FallbackDocument ==
    (sf_resp # NoDocument /\ sf_resp.document # "ok") => sf_resp.url # 1

\* The job a row of the table should give for a posting with an apply link.
ExpectedJob ==
    [ id |-> <<CompanyText, RoleText, LocationText, ApplyUrl>>,
      title |-> <<AgeText, CompanyText, RoleText, LocationText>>,
      link |-> ApplyUrl ]

\* The rows of the document whose Application cell carries a URL.
RowsWithApplyLink == {k \in 1..Len(md.postings) : md.postings[k].apply # "none"}

\* C17: from a table under the standard header, the adapter returns a job
\* only for rows whose Application cell carries a URL: as many jobs as such
\* rows, each with the apply link.
RowsWithoutLinkDropped ==
    (table_out.done /\ md.header = StandardHeader)
        => /\ Len(table_out.jobs) = Cardinality(RowsWithApplyLink)
           /\ \A j \in 1..Len(table_out.jobs) : table_out.jobs[j].link = ApplyUrl

\* C19: whatever the order of the five header labels, the adapter locates
\* the table, and when every row has an apply link it returns for each row
\* the job made of the cells under Company, Role, Location, Application
\* and Age.
HeaderOrderIndependent ==
    table_out.done
        => /\ table_out.located
           /\ (RowsWithApplyLink = 1..Len(md.postings)
                  => table_out.jobs = [k \in 1..Len(md.postings) |-> ExpectedJob])

====
